---- MODULE Spec2Model ----
(***************************************************************************)
(* The map widget of the logistics dashboard                               *)
(* (frontend/src/components/widgets/MapWidget.tsx): one React component    *)
(* instance with three effects (surface initialisation, route polylines,   *)
(* live-position polling), the network requests they leave in flight and   *)
(* the scene they build on a maplibre surface.                             *)
(*                                                                         *)
(* Each action is one task of the single JavaScript thread: a React commit *)
(* with the effect bodies and cleanups it runs, an event handler, a timer  *)
(* callback, or the continuation of one awaited request.                   *)
(*                                                                         *)
(* The rendering surface is the environment.  The 'load' listener of line  *)
(* 38 may be called while it is being registered (a surface whose style is *)
(* already there, as a stub surface does) or in a later task (as           *)
(* maplibre-gl does); both are explored.  After map.remove() a surface has *)
(* no style any more: getLayer on it throws.                               *)
(***************************************************************************)
EXTENDS Integers, Sequences, FiniteSets, TLC

\* ---------------------------------------------------------------- bounds
MaxRoutes == 2          \* routes in one getActiveRoutes answer
MaxPolls == 2           \* getLivePositions requests issued by one widget
MaxBatch == 2           \* positions in one getLivePositions answer
MaxConfigChanges == 1   \* changes of config.center / config.zoom
MaxAppRuns == 2          \* runs of App's effect
MaxTableRoutes == 4      \* routes in one answer to RoutesTableWidget's query
MaxPlanRuns == 2         \* calls of createRoutesAsync

\* ---------------------------------------------------------------- inputs
Vehicles == {"V1", "V2"}
Positions == {[lat |-> 1, lon |-> 7], [lat |-> 2, lon |-> 8]}
BadPosition == [lat |-> 91, lon |-> 7]   \* a latitude outside [-90, 90]
Geoms == {"G1", "G2"}                    \* LineStrings of 2 or more coordinates
ShortGeom == "G0"                        \* a LineString of fewer than 2 coordinates
NoBody == "null"                         \* an answer without a body: geomResp is null
GeomResponses == Geoms \cup {ShortGeom, NoBody}
NoId == ""                               \* r.id absent (falsy)
RouteIds == {"R1", "1"}
StopCounts == {1, 2}
Route == [id : RouteIds \cup {NoId}, nstops : StopCounts]
LivePosition ==
    [vehicle_id : Vehicles, pos : Positions] \cup {[vehicle_id |-> "V1", pos |-> BadPosition]}

SeqsUpTo(S, n) == UNION {[1..k -> S] : k \in 0..n}
RouteLists == SeqsUpTo(Route, MaxRoutes)
Payloads == SeqsUpTo(LivePosition, MaxBatch)

NoSurface == 0                           \* mapRef.current = null
NoMarker == 0                            \* markersRef.current[id] undefined
NoSource == [geom |-> "none", routeId |-> "none"]

\* ------------------------------------------------------------- layer ids
IdxStr(i) == <<"0", "1", "2", "3", "4">>[i + 1]

\* `route-line-${r.id || idx}`, idx the zero-based index in the fetched list
LayerId(r, idx) == "route-line-" \o (IF r.id # NoId THEN r.id ELSE IdxStr(idx))

LayerIds == {"route-line-" \o k : k \in RouteIds \cup {IdxStr(i) : i \in 0..(MaxRoutes - 1)}}

VARIABLES
    phase,            \* "unmounted" (not yet attached), "mounted", "detached"
    config,           \* number of config.center/zoom changes so far
    nsurf,            \* surfaces created so far; surface ids are 1..nsurf
    curMap,           \* `map` of the latest run of the init effect
    curLoaded,        \* whether curMap has reported 'load'
    removed,          \* surfaces on which map.remove() was called
    mapRef,           \* mapRef.current
    loaded,           \* the `loaded` state
    renderedLoaded,   \* `loaded` as of the last committed render (effect deps)
    surfaceError,     \* what became of an 'error' event of curMap: "none", "unhandled"
    routeRun,         \* closure of the route effect: cancelled, map
    routesReq,        \* getActiveRoutes: "none", "pending", "done", "failed"
    routes,           \* the fetched route list
    geomReq,          \* per list index, the state of its getRouteGeometry
    scene,            \* sources and layers of the surface routeRun.map
    poller,           \* closure of the poll effect, its timer, polls in flight
    mk,               \* marker objects on the surface and markersRef
    markerPoll,       \* history: per vehicle, the poll that last set its marker
    cleared,          \* history: the detach found markers and layers to clear
    seen              \* history: cases met on the current surface, and since the detach

\* App (App.tsx)
VARIABLES
    appPhase,         \* "unmounted", "mounted", "detached"
    initRun,          \* per run of the effect, how far its initializeMap got
    map,              \* map.current: NoMap or the run whose map it holds
    maps,             \* maps created so far, named by the run that created them
    mapsRemoved,      \* maps on which remove() was called
    loading,          \* the `loading` state
    error,            \* the `error` state is not null
    mapLoaded         \* the `mapLoaded` state

\* RoutesTableWidget (OrdersInventoryPanel.tsx)
VARIABLES
    tablePhase,       \* "unmounted", "mounted"
    pageSize,         \* config.pageSize
    currentPage,      \* the `currentPage` state
    tableData,        \* length of the query's `data`, NoData while undefined
    queryError,       \* the query's `error` is not null
    fetching          \* a getActiveRoutes of the query is in flight

\* OrdersInventoryLiveWidget (ExceptionsWidget.tsx)
VARIABLES
    creating,         \* the `creating` state
    showConfirm,      \* the `showConfirm` state
    message,          \* the `message` state: "none" for null
    createdRoutes,    \* length of the `createdRoutes` state
    maxTrucks,        \* the `maxTrucks` state
    planRuns,         \* the calls of createRoutesAsync so far and where each stands
    msgTimers,        \* pending setTimeout(() => setMessage(null), 4000)
    queryCache        \* what createRoutesAsync wrote to the query cache

mapWidget == <<phase, config, nsurf, curMap, curLoaded, removed, mapRef, loaded,
               renderedLoaded, surfaceError, routeRun, routesReq, routes, geomReq, scene,
               poller, mk, markerPoll, cleared, seen>>
app == <<appPhase, initRun, map, maps, mapsRemoved, loading, error, mapLoaded>>
routesTable == <<tablePhase, pageSize, currentPage, tableData, queryError, fetching>>
liveWidget == <<creating, showConfirm, message, createdRoutes, maxTrucks, planRuns,
                msgTimers, queryCache>>
\* the components MapWidget does not touch
otherComponents == <<app, routesTable, liveWidget>>

vars == <<mapWidget, app, routesTable, liveWidget>>

lifecycle == <<phase, config, nsurf, curMap, curLoaded, removed, mapRef, loaded,
               renderedLoaded, surfaceError>>
routeVars == <<routeRun, routesReq, routes, geomReq, scene>>
pollVars == <<poller, mk, markerPoll>>
history == <<cleared, seen>>

\* a getRouteGeometry request: its state and, once resolved, its answer
Req(st) == [st |-> st, geom |-> "none"]

EmptyScene == [sources |-> [k \in LayerIds |-> NoSource], layers |-> {}]
NoRun == [active |-> FALSE, cancelled |-> FALSE, map |-> NoSurface]
NoPoller == [active |-> FALSE, mounted |-> FALSE, interval |-> FALSE,
             inFlight |-> {}, seq |-> 0]
\* history only (models no code): tag is added to the cases met when cond holds
Note(tags, cond, tag) == IF cond THEN tags \cup {tag} ELSE tags

NoMarkers == [objs |-> {}, ref |-> [v \in Vehicles |-> NoMarker], next |-> 1]

\* ------------------------------------------------------------------ App
NoMap == 0
Suspended == {"import", "css", "fetch", "json", "delay"}

\* App.tsx lines 12-17: the refs and the states before the effect has run
InitApp ==
    /\ appPhase = "unmounted"
    /\ initRun = [r \in 1..MaxAppRuns |-> [stage |-> "none", cleaned |-> FALSE]]
    /\ map = NoMap
    /\ maps = {}
    /\ mapsRemoved = {}
    /\ loading = TRUE
    /\ error = FALSE
    /\ mapLoaded = FALSE

\* ---------------------------------------------------- RoutesTableWidget
NoData == 0 - 1
PageSizes == {1, 2}

\* OrdersInventoryPanel.tsx lines 94-100: before the component is rendered
InitRoutesTable ==
    /\ tablePhase = "unmounted"
    /\ pageSize = 1
    /\ currentPage = 1
    /\ tableData = NoData
    /\ queryError = FALSE
    /\ fetching = FALSE

\* -------------------------------------------- OrdersInventoryLiveWidget
TruckChoices == {1, 5}
MaxCreated == 1
NoCache == [routes |-> FALSE, created |-> NoData]

\* ExceptionsWidget.tsx lines 198-206: the states of the first render
InitLiveWidget ==
    /\ creating = FALSE
    /\ showConfirm = FALSE
    /\ message = "none"
    /\ createdRoutes = 0
    /\ maxTrucks = 5
    /\ planRuns = <<>>
    /\ msgTimers = 0
    /\ queryCache = NoCache

Init ==
    /\ phase = "unmounted"
    /\ config = 0
    /\ nsurf = 0
    /\ curMap = NoSurface
    /\ curLoaded = FALSE
    /\ removed = {}
    /\ mapRef = NoSurface
    /\ loaded = FALSE
    /\ renderedLoaded = FALSE
    /\ surfaceError = "none"
    /\ routeRun = NoRun
    /\ routesReq = "none"
    /\ routes = <<>>
    /\ geomReq = [i \in 1..MaxRoutes |-> Req("none")]
    /\ scene = EmptyScene
    /\ poller = NoPoller
    /\ mk = NoMarkers
    /\ markerPoll = [v \in Vehicles |-> 0]
    /\ cleared = FALSE
    /\ seen = {}
    /\ InitApp
    /\ InitRoutesTable
    /\ InitLiveWidget

\* ----------------------------------------------------------- poll effect
\* lines 131-169: mounted = true, setInterval(poll, 2000), then poll()
StartPoller ==
    [active |-> TRUE, mounted |-> TRUE, interval |-> TRUE, inFlight |-> {1}, seq |-> 1]

\* line 130 and the effect body; `ref` is mapRef.current when the effect runs
PollEffect(ref) == IF ref = NoSurface THEN NoPoller ELSE StartPoller

\* ---------------------------------------------------------- route effect
\* lines 55-58 and 121: guard, cancelled = false, map = mapRef.current, loadRoutes()
RouteEffect(isLoaded, ref) ==
    IF ~isLoaded \/ ref = NoSurface
    THEN [run |-> NoRun, req |-> "none"]
    ELSE [run |-> [active |-> TRUE, cancelled |-> FALSE, map |-> ref], req |-> "pending"]

\* ---------------------------------------------------------------- mount
\* First commit: the three effects run in order.  The init effect creates the
\* surface; the route effect sees loaded = false; the poll effect reads mapRef.
Mount ==
    \E sync \in BOOLEAN :
        /\ phase = "unmounted"
        /\ phase' = "mounted"
        /\ nsurf' = nsurf + 1
        /\ curMap' = nsurf + 1
        /\ curLoaded' = sync
        /\ mapRef' = IF sync THEN nsurf + 1 ELSE NoSurface
        /\ loaded' = sync
        /\ renderedLoaded' = FALSE
        /\ poller' = PollEffect(mapRef')
        /\ UNCHANGED <<otherComponents, config, removed, surfaceError, routeVars, mk, markerPoll, history>>

\* the 'load' listener of lines 38-41, called in a later task
SurfaceLoad ==
    /\ phase = "mounted"
    /\ curMap # NoSurface
    /\ curMap \notin removed
    /\ ~curLoaded
    /\ surfaceError = "none"
    /\ curLoaded' = TRUE
    /\ mapRef' = curMap
    /\ loaded' = TRUE
    /\ UNCHANGED <<otherComponents, phase, config, nsurf, curMap, removed, renderedLoaded, surfaceError,
                   routeVars, pollVars, history>>

\* The style of curMap cannot be loaded: the surface fires 'error' and never
\* 'load'.  The widget registers no 'error' listener (lines 36-41), so the
\* event ends in the surface's own console.error.
SurfaceError ==
    /\ phase = "mounted"
    /\ curMap # NoSurface
    /\ curMap \notin removed
    /\ ~curLoaded
    /\ surfaceError = "none"
    /\ surfaceError' = "unhandled"
    /\ UNCHANGED <<otherComponents, phase, config, nsurf, curMap, curLoaded, removed, mapRef, loaded,
                   renderedLoaded, routeVars, pollVars, history>>

\* The commit after setLoaded(true): only the route effect's deps changed.
Render ==
    /\ phase = "mounted"
    /\ loaded # renderedLoaded
    /\ renderedLoaded' = loaded
    /\ LET e == RouteEffect(loaded, mapRef) IN
        /\ routeRun' = e.run
        /\ routesReq' = e.req
    /\ UNCHANGED <<otherComponents, phase, config, nsurf, curMap, curLoaded, removed, mapRef, loaded,
                   surfaceError, routes, geomReq, scene, pollVars, history>>

\* ------------------------------------------------------------ loadRoutes
\* line 62 resolved: the continuation maps over the list and, for every route
\* with at least 2 stops, awaits getRouteGeometry (lines 66-76).  `cancelled`
\* is not read here: the requests go out even when the effect was cleaned up.
GeomIssuedOneAtATime(list) ==
    [i \in 1..MaxRoutes |->
        IF i > Len(list) THEN Req("none")
        ELSE IF list[i].nstops < 2 THEN Req("skipped")
        ELSE IF \E k \in 1..(i - 1) : list[k].nstops >= 2 THEN Req("none")
        ELSE Req("pending")]

GeomIssuedForAnyStops(list) ==
    [i \in 1..MaxRoutes |-> IF i > Len(list) THEN Req("none") ELSE Req("pending")]

GeomIssued(list) ==
    [i \in 1..MaxRoutes |->
        IF i > Len(list) THEN Req("none")
        ELSE IF list[i].nstops < 2 THEN Req("skipped")
        ELSE Req("pending")]

RoutesResolve ==
    \E list \in RouteLists :
        /\ routesReq = "pending"
        /\ routesReq' = "done"
        /\ routes' = list
        /\ geomReq' = GeomIssued(list)
        /\ UNCHANGED <<otherComponents, lifecycle, routeRun, scene, pollVars, history>>

\* line 62 rejected: caught at line 116, logged
RoutesFail ==
    /\ routesReq = "pending"
    /\ routesReq' = "failed"
    /\ UNCHANGED <<otherComponents, lifecycle, routeRun, routes, geomReq, scene, pollVars, history>>

\* lines 106-113: addSource throws when a source with the id is still there
AddSourceAndLayer(sc, id, src) ==
    IF sc.sources[id] # NoSource
    THEN [ok |-> FALSE, scene |-> sc]
    ELSE [ok |-> TRUE,
          scene |-> [sources |-> [sc.sources EXCEPT ![id] = src],
                     layers |-> sc.layers \cup {id}]]

UpsertLayerWithoutRemoval(sc, id, src) == AddSourceAndLayer(sc, id, src)

UpsertLayerKeepsSource(sc, id, src) ==
    AddSourceAndLayer([sc EXCEPT !.layers = @ \ {id}], id, src)

UpsertLayerSourceOnly(sc, id, src) ==
    [ok |-> TRUE,
     scene |-> [sources |-> [sc.sources EXCEPT ![id] = src], layers |-> sc.layers \ {id}]]

\* lines 90-113 on a live surface: remove the layer and the source under the
\* id if present, then addSource and addLayer
UpsertLayer(sc, id, src) ==
    LET s1 == IF id \in sc.layers THEN [sc EXCEPT !.layers = @ \ {id}] ELSE sc
        s2 == IF s1.sources[id] # NoSource
              THEN [s1 EXCEPT !.sources[id] = NoSource] ELSE s1
    IN  AddSourceAndLayer(s2, id, src)

\* line 77
GeomSuppressed(run) == run.cancelled

\* history only: some request of the batch was rejected or its continuation threw
AnyFailed(reqs) == \E k \in 1..MaxRoutes : reqs[k].st \in {"failed", "threw"}

\* line 76 resolved for the route at list index i: lines 77-113.  Reading
\* geomResp.geometry (line 85) throws on a null answer, getLayer (line 91)
\* throws on a removed surface; the answer's coordinates are not looked at.
GeomResolve ==
    \E i \in 1..MaxRoutes, g \in GeomResponses :
        /\ geomReq[i].st = "pending"
        /\ LET id == LayerId(routes[i], i - 1)
               up == UpsertLayer(scene, id, [geom |-> g, routeId |-> routes[i].id])
           IN  IF GeomSuppressed(routeRun)
               THEN /\ geomReq' = [geomReq EXCEPT ![i] = Req("discarded")]
                    /\ scene' = scene
               ELSE IF g = NoBody \/ routeRun.map \in removed \/ ~up.ok
               THEN /\ geomReq' = [geomReq EXCEPT ![i] =
                                        [st |-> "threw",
                                         geom |-> IF g = NoBody THEN NoBody ELSE "none"]]
                    /\ scene' = scene
               ELSE /\ geomReq' = [geomReq EXCEPT ![i] = [st |-> "applied", geom |-> g]]
                    /\ scene' = up.scene
        /\ seen' = Note(seen, geomReq'[i].st = "applied" /\ AnyFailed(geomReq),
                         "appliedAfterFailure")
        /\ UNCHANGED <<otherComponents, lifecycle, routeRun, routesReq, routes, pollVars, cleared>>

\* line 76 rejected: Promise.all rejects, caught at line 116, logged
GeomFailRemovesLayer ==
    \E i \in 1..MaxRoutes :
        /\ geomReq[i].st = "pending"
        /\ geomReq' = [geomReq EXCEPT ![i] = Req("failed")]
        /\ scene' = [sources |-> [scene.sources EXCEPT ![LayerId(routes[i], i - 1)] = NoSource],
                     layers |-> scene.layers \ {LayerId(routes[i], i - 1)}]
        /\ seen' = Note(seen, scene.layers # {}, "failedOverLayer")
        /\ UNCHANGED <<otherComponents, lifecycle, routeRun, routesReq, routes, pollVars, cleared>>

GeomFailCancelsRun ==
    \E i \in 1..MaxRoutes :
        /\ geomReq[i].st = "pending"
        /\ geomReq' = [geomReq EXCEPT ![i] = Req("failed")]
        /\ routeRun' = [routeRun EXCEPT !.cancelled = TRUE]
        /\ seen' = Note(seen, scene.layers # {}, "failedOverLayer")
        /\ UNCHANGED <<otherComponents, lifecycle, routesReq, routes, scene, pollVars, cleared>>

GeomFail ==
    \E i \in 1..MaxRoutes :
        /\ geomReq[i].st = "pending"
        /\ geomReq' = [geomReq EXCEPT ![i] = Req("failed")]
        /\ seen' = Note(seen, scene.layers # {}, "failedOverLayer")
        /\ UNCHANGED <<otherComponents, lifecycle, routeRun, routesReq, routes, scene, pollVars, cleared>>

\* ------------------------------------------------------------------ poll
\* line 135: one more getLivePositions request goes out
IssuePoll(p) == [p EXCEPT !.seq = @ + 1, !.inFlight = @ \cup {p.seq + 1}]

\* lines 164-166: the interval callback calls poll() whatever is in flight
Tick ==
    /\ poller.interval
    /\ poller.seq < MaxPolls
    /\ poller' = IssuePoll(poller)
    /\ UNCHANGED <<otherComponents, lifecycle, routeVars, mk, markerPoll, history>>

CreateMarkerNotStored(m, p, surf) ==
    [m EXCEPT !.objs = @ \cup {[oid |-> m.next, vehicle |-> p.vehicle_id,
                                lngLat |-> <<p.pos.lon, p.pos.lat>>, surf |-> surf]},
              !.next = @ + 1]

\* lines 144-153: a new marker at [lon, lat], added to the surface, stored
CreateMarker(m, p, surf) ==
    [objs |-> m.objs \cup {[oid |-> m.next, vehicle |-> p.vehicle_id,
                            lngLat |-> <<p.pos.lon, p.pos.lat>>, surf |-> surf]},
     ref |-> [m.ref EXCEPT ![p.vehicle_id] = m.next],
     next |-> m.next + 1]

UpsertMarkerAlwaysCreates(m, p, surf) == CreateMarker(m, p, surf)

UpsertMarkerForgetOthers(m, p, surf) ==
    IF m.ref[p.vehicle_id] = NoMarker
    THEN CreateMarker(m, p, surf)
    ELSE [m EXCEPT !.objs = {[o EXCEPT !.lngLat = <<p.pos.lon, p.pos.lat>>] :
                                o \in {x \in m.objs : x.oid = m.ref[p.vehicle_id]}},
                   !.ref = [v \in Vehicles |->
                              IF v = p.vehicle_id THEN m.ref[v] ELSE NoMarker]]

\* lines 139-157 for one position: create a marker, or move the stored one
UpsertMarker(m, p, surf) ==
    IF m.ref[p.vehicle_id] = NoMarker
    THEN CreateMarker(m, p, surf)
    ELSE [m EXCEPT !.objs = {IF o.oid = m.ref[p.vehicle_id]
                             THEN [o EXCEPT !.lngLat = <<p.pos.lon, p.pos.lat>>]
                             ELSE o : o \in m.objs}]

\* setLngLat (lines 152 and 156) throws on a latitude outside [-90, 90]
ValidLngLat(pos) == pos.lat >= -90 /\ pos.lat <= 90

\* line 138: positions.forEach; a callback that throws ends the loop (the
\* exception is caught at line 159), the entries before it stay applied
RECURSIVE ApplyPositions(_, _, _)
ApplyPositions(m, payload, surf) ==
    IF payload = <<>> THEN m
    ELSE IF ~ValidLngLat(Head(payload).pos) THEN m
    ELSE ApplyPositions(UpsertMarker(m, Head(payload), surf), Tail(payload), surf)

\* history only: the entries of an answer that forEach gets through
RECURSIVE Processed(_)
Processed(payload) ==
    IF payload = <<>> THEN <<>>
    ELSE IF ~ValidLngLat(Head(payload).pos) THEN <<>>
    ELSE <<Head(payload)>> \o Processed(Tail(payload))

\* line 136
PollSuppressed(p, ref) == ~p.mounted \/ ref = NoSurface

\* history only: the answer lists some vehicle twice
ListsTwice(payload) ==
    \E j, k \in 1..Len(payload) : j # k /\ payload[j].vehicle_id = payload[k].vehicle_id

\* history only: the vehicles an answer lists
InPayload(payload) == {payload[k].vehicle_id : k \in 1..Len(payload)}

\* line 135 resolved for poll `id`: lines 136-158
PollResolve ==
    \E id \in poller.inFlight, payload \in Payloads :
        /\ poller' = [poller EXCEPT !.inFlight = @ \ {id}]
        /\ IF PollSuppressed(poller, mapRef)
           THEN /\ mk' = mk
                /\ markerPoll' = markerPoll
           ELSE /\ mk' = ApplyPositions(mk, payload, mapRef)
                /\ markerPoll' = [v \in Vehicles |->
                                    IF v \in InPayload(Processed(payload))
                                    THEN id ELSE markerPoll[v]]
        /\ seen' = Note(Note(Note(seen, phase = "detached", "latePoll"),
                              ~PollSuppressed(poller, mapRef) /\ ListsTwice(Processed(payload)),
                              "dupVehicle"),
                         /\ ~PollSuppressed(poller, mapRef)
                         /\ payload # <<>> /\ Processed(payload) = payload
                         /\ ApplyPositions(mk, payload, mapRef) = mk,
                         "reapplied")
        /\ UNCHANGED <<otherComponents, lifecycle, routeVars, cleared>>

\* line 135 rejected: caught at line 159, logged
PollFailClearsMarkers ==
    \E id \in poller.inFlight :
        /\ poller' = [poller EXCEPT !.inFlight = @ \ {id}]
        /\ mk' = [mk EXCEPT !.objs = {}, !.ref = [v \in Vehicles |-> NoMarker]]
        /\ seen' = Note(seen, mk.objs # {}, "failedOverMarkers")
        /\ UNCHANGED <<otherComponents, lifecycle, routeVars, markerPoll, cleared>>

PollFail ==
    \E id \in poller.inFlight :
        /\ poller' = [poller EXCEPT !.inFlight = @ \ {id}]
        /\ seen' = Note(seen, mk.objs # {}, "failedOverMarkers")
        /\ UNCHANGED <<otherComponents, lifecycle, routeVars, mk, markerPoll, cleared>>

\* ---------------------------------------------------------------- cleanups
\* map.remove() on surface s: the style of s, with its sources and layers, is gone
SceneAfterRemove(sc, run, s) == IF run.map = s THEN EmptyScene ELSE sc

\* lines 123-125
RouteCleanup(r) == IF r.active THEN [r EXCEPT !.cancelled = TRUE] ELSE r

\* lines 172-173
PollCleanupKeepsTimer(p) == IF p.active THEN [p EXCEPT !.mounted = FALSE] ELSE p
PollCleanup(p) == IF p.active THEN [p EXCEPT !.mounted = FALSE, !.interval = FALSE] ELSE p

\* lines 175-176: every marker of markersRef is removed, markersRef is emptied
MarkersCleanupKeepsMarkers(p, m) ==
    IF p.active THEN [m EXCEPT !.ref = [v \in Vehicles |-> NoMarker]] ELSE m
MarkersCleanup(p, m) ==
    IF p.active
    THEN [m EXCEPT !.objs = {o \in m.objs : \A v \in Vehicles : m.ref[v] # o.oid},
                   !.ref = [v \in Vehicles |-> NoMarker]]
    ELSE m

UnmountNoCleanup ==
    /\ phase = "mounted"
    /\ phase' = "detached"
    /\ cleared' = (mk.objs # {} /\ scene.layers # {})
    /\ seen' = {}
    /\ UNCHANGED <<otherComponents, config, nsurf, curMap, curLoaded, removed, mapRef, loaded,
                   renderedLoaded, surfaceError, routeVars, pollVars>>

\* Detach: the cleanups of lines 43-50, 123-125 and 171-177, in effect order
Unmount ==
    /\ phase = "mounted"
    /\ phase' = "detached"
    /\ removed' = removed \cup {curMap}
    /\ mapRef' = NoSurface
    /\ scene' = SceneAfterRemove(scene, routeRun, curMap)
    /\ routeRun' = RouteCleanup(routeRun)
    /\ poller' = PollCleanup(poller)
    /\ mk' = MarkersCleanup(poller, mk)
    /\ markerPoll' = IF poller.active THEN [v \in Vehicles |-> 0] ELSE markerPoll
    /\ cleared' = (mk.objs # {} /\ scene.layers # {})
    /\ seen' = {}
    /\ UNCHANGED <<otherComponents, config, nsurf, curMap, curLoaded, loaded, renderedLoaded,
                   surfaceError, routesReq, routes, geomReq>>

\* config.center or config.zoom changed: one commit runs the init effect's
\* cleanup (lines 43-50) and body (lines 27-41) and, when setLoaded(true) was
\* still waiting for its render, the route effect with the new `loaded`.
ConfigChange ==
    \E sync \in BOOLEAN :
        /\ phase = "mounted"
        /\ config < MaxConfigChanges
        /\ config' = config + 1
        /\ removed' = removed \cup {curMap}
        /\ nsurf' = nsurf + 1
        /\ curMap' = nsurf + 1
        /\ curLoaded' = sync
        /\ mapRef' = IF sync THEN nsurf + 1 ELSE NoSurface
        /\ loaded' = (loaded \/ sync)
        /\ renderedLoaded' = loaded
        /\ surfaceError' = "none"
        /\ scene' = SceneAfterRemove(scene, routeRun, curMap)
        /\ IF loaded # renderedLoaded
           THEN LET e == RouteEffect(loaded, mapRef') IN
                    routeRun' = e.run /\ routesReq' = e.req
           ELSE UNCHANGED <<routeRun, routesReq>>
        /\ seen' = {}
        /\ UNCHANGED <<otherComponents, phase, routes, geomReq, pollVars, cleared>>

Next ==
    \/ Mount
    \/ SurfaceLoad
    \/ Render
    \/ ConfigChange
    \/ RoutesResolve
    \/ RoutesFail
    \/ GeomResolve
    \/ GeomFail
    \/ Tick
    \/ PollResolve
    \/ PollFail
    \/ Unmount

Spec == Init /\ [][Next]_vars

\* the widget on a surface whose style may fail to load
NextOrSurfaceError ==
    \/ Next
    \/ SurfaceError

SpecSurfaceError == Init /\ [][NextOrSurfaceError]_vars

\* ================================================================== App
\* the div of line 285 is rendered, and the ref set, only while error is null
\* (line 146 returns the error view without it)
mapContainer == appPhase = "mounted" /\ ~error

\* lines 23-30: initializeMap() runs to its first await
StartInit(runs) ==
    LET r == CHOOSE k \in 1..MaxAppRuns :
                 runs[k].stage = "none" /\ \A j \in 1..(k - 1) : runs[j].stage # "none"
    IN  [runs EXCEPT ![r].stage = "import"]

\* history only (models no code): the runs still suspended when a cleanup ran
MarkCleaned(runs) ==
    [r \in 1..MaxAppRuns |->
        IF runs[r].stage \in Suspended THEN [runs[r] EXCEPT !.cleaned = TRUE] ELSE runs[r]]

\* lines 109-115: the cleanup removes the map that map.current holds
Cleanup(removedSoFar) == IF map # NoMap THEN removedSoFar \cup {map} ELSE removedSoFar

\* lines 99-103: the catch; setState of a component that is gone does nothing
Caught(r) ==
    /\ initRun' = [initRun EXCEPT ![r].stage = "failed"]
    /\ error' = IF appPhase = "mounted" THEN TRUE ELSE error
    /\ loading' = IF appPhase = "mounted" THEN FALSE ELSE loading
    /\ UNCHANGED <<appPhase, map, maps, mapsRemoved, mapLoaded>>

\* lines 20-106: the component mounts and its effect runs
AppMount ==
    /\ appPhase = "unmounted"
    /\ appPhase' = "mounted"
    /\ initRun' = StartInit(initRun)
    /\ loading' = TRUE
    /\ UNCHANGED <<map, maps, mapsRemoved, error, mapLoaded>>
    /\ UNCHANGED <<mapWidget, routesTable, liveWidget>>

\* React runs the cleanup and the effect again on the mounted component, its
\* refs kept (the unmount and mount of effects of StrictMode, a Fast Refresh)
AppEffectRerun ==
    /\ appPhase = "mounted"
    /\ \E r \in 1..MaxAppRuns : initRun[r].stage = "none"
    /\ mapsRemoved' = Cleanup(mapsRemoved)
    /\ map' = NoMap
    /\ initRun' = StartInit(MarkCleaned(initRun))
    /\ loading' = TRUE
    /\ UNCHANGED <<appPhase, maps, error, mapLoaded>>
    /\ UNCHANGED <<mapWidget, routesTable, liveWidget>>

\* lines 109-115: the component unmounts; React sets mapContainer.current to null
AppUnmount ==
    /\ appPhase = "mounted"
    /\ appPhase' = "detached"
    /\ mapsRemoved' = Cleanup(mapsRemoved)
    /\ map' = NoMap
    /\ initRun' = MarkCleaned(initRun)
    /\ UNCHANGED <<maps, loading, error, mapLoaded>>
    /\ UNCHANGED <<mapWidget, routesTable, liveWidget>>

\* lines 30-42: an import resolves; after the second, the container is checked
\* and the warehouses are requested
AppImportResolve ==
    \E r \in 1..MaxAppRuns :
        /\ initRun[r].stage \in {"import", "css"}
        /\ IF initRun[r].stage = "import"
           THEN /\ initRun' = [initRun EXCEPT ![r].stage = "css"]
                /\ UNCHANGED <<appPhase, map, maps, mapsRemoved, loading, error, mapLoaded>>
           ELSE IF mapContainer
           THEN /\ initRun' = [initRun EXCEPT ![r].stage = "fetch"]
                /\ UNCHANGED <<appPhase, map, maps, mapsRemoved, loading, error, mapLoaded>>
           ELSE Caught(r)
        /\ UNCHANGED <<mapWidget, routesTable, liveWidget>>

\* lines 42-46: the warehouse request answers, with a status that is ok or not
AppFetchResolve ==
    \E r \in 1..MaxAppRuns, ok \in BOOLEAN :
        /\ initRun[r].stage = "fetch"
        /\ IF ok
           THEN /\ initRun' = [initRun EXCEPT ![r].stage = "json"]
                /\ UNCHANGED <<appPhase, map, maps, mapsRemoved, loading, error, mapLoaded>>
           ELSE Caught(r)
        /\ UNCHANGED <<mapWidget, routesTable, liveWidget>>

\* lines 46-51: the body is parsed, setWarehouses, the 100 ms delay starts
AppJsonResolve ==
    \E r \in 1..MaxAppRuns :
        /\ initRun[r].stage = "json"
        /\ initRun' = [initRun EXCEPT ![r].stage = "delay"]
        /\ UNCHANGED <<appPhase, map, maps, mapsRemoved, loading, error, mapLoaded>>
        /\ UNCHANGED <<mapWidget, routesTable, liveWidget>>

\* lines 30-46: an import, the request or the parsing of the body rejects
AppAwaitFail ==
    \E r \in 1..MaxAppRuns :
        /\ initRun[r].stage \in {"import", "css", "fetch", "json"}
        /\ Caught(r)
        /\ UNCHANGED <<mapWidget, routesTable, liveWidget>>

\* lines 54-97: after the delay the map is created on mapContainer.current and
\* stored in map.current; the constructor throws for a container that is null
AppDelayElapsed ==
    \E r \in 1..MaxAppRuns :
        /\ initRun[r].stage = "delay"
        /\ IF mapContainer
           THEN /\ initRun' = [initRun EXCEPT ![r].stage = "created"]
                /\ maps' = maps \cup {r}
                /\ map' = r
                /\ UNCHANGED <<appPhase, mapsRemoved, loading, error, mapLoaded>>
           ELSE Caught(r)
        /\ UNCHANGED <<mapWidget, routesTable, liveWidget>>

\* lines 77-90: a map that was not removed fires 'load'
AppMapLoad ==
    \E r \in maps \ mapsRemoved :
        /\ initRun[r].stage = "created"
        /\ initRun' = [initRun EXCEPT ![r].stage = "loaded"]
        /\ mapLoaded' = TRUE
        /\ loading' = FALSE
        /\ UNCHANGED <<appPhase, map, maps, mapsRemoved, error>>
        /\ UNCHANGED <<mapWidget, routesTable, liveWidget>>

\* lines 93-97: a map that was not removed fires 'error'
AppMapError ==
    \E r \in maps \ mapsRemoved :
        /\ ~error
        /\ error' = TRUE
        /\ loading' = FALSE
        /\ UNCHANGED <<appPhase, initRun, map, maps, mapsRemoved, mapLoaded>>
        /\ UNCHANGED <<mapWidget, routesTable, liveWidget>>

NextApp ==
    \/ AppMount
    \/ AppEffectRerun
    \/ AppImportResolve
    \/ AppFetchResolve
    \/ AppJsonResolve
    \/ AppAwaitFail
    \/ AppDelayElapsed
    \/ AppMapLoad
    \/ AppMapError
    \/ AppUnmount

SpecApp == Init /\ [][NextApp]_vars

\* ==================================================== RoutesTableWidget
Min(a, b) == IF a < b THEN a ELSE b
Max(a, b) == IF a > b THEN a ELSE b
\* Math.ceil(n / d) for n >= 0 and d > 0
Ceil(n, d) == (n + d - 1) \div d

\* lines 102-126: isLoading, error and the empty list each return another view
TableShown == tablePhase = "mounted" /\ ~queryError /\ tableData > 0
\* lines 129-132
totalPages == Ceil(tableData, pageSize)
startIndex == (currentPage - 1) * pageSize
endIndex == startIndex + pageSize
\* length of routes.slice(startIndex, endIndex)
currentRoutes == Max(0, Min(tableData, endIndex) - Min(tableData, startIndex))

\* lines 93-100: first render, with the caller's config; the query starts
TableMount ==
    \E ps \in PageSizes :
        /\ tablePhase = "unmounted"
        /\ tablePhase' = "mounted"
        /\ pageSize' = ps
        /\ currentPage' = 1
        /\ fetching' = TRUE
        /\ UNCHANGED <<tableData, queryError>>
        /\ UNCHANGED <<mapWidget, app, liveWidget>>

\* line 99: refetchInterval starts another getActiveRoutes
Refetch ==
    /\ tablePhase = "mounted"
    /\ ~fetching
    /\ fetching' = TRUE
    /\ UNCHANGED <<tablePhase, pageSize, currentPage, tableData, queryError>>
    /\ UNCHANGED <<mapWidget, app, liveWidget>>

\* lines 96-100: the query resolves with a list of n routes
QueryResolve ==
    \E n \in 0..MaxTableRoutes :
        /\ fetching
        /\ fetching' = FALSE
        /\ tableData' = n
        /\ queryError' = FALSE
        /\ UNCHANGED <<tablePhase, pageSize, currentPage>>
        /\ UNCHANGED <<mapWidget, app, liveWidget>>

\* lines 96-100: the query fails; the data of the last success is kept
QueryFail ==
    /\ fetching
    /\ fetching' = FALSE
    /\ queryError' = TRUE
    /\ UNCHANGED <<tablePhase, pageSize, currentPage, tableData>>
    /\ UNCHANGED <<mapWidget, app, liveWidget>>

\* lines 241-249: the previous button, rendered when totalPages > 1
PrevClick ==
    /\ TableShown /\ totalPages > 1
    /\ currentPage # 1
    /\ currentPage' = Max(1, currentPage - 1)
    /\ UNCHANGED <<tablePhase, pageSize, tableData, queryError, fetching>>
    /\ UNCHANGED <<mapWidget, app, liveWidget>>

\* lines 255-261: the next button, rendered when totalPages > 1
NextClick ==
    /\ TableShown /\ totalPages > 1
    /\ currentPage # totalPages
    /\ currentPage' = Min(totalPages, currentPage + 1)
    /\ UNCHANGED <<tablePhase, pageSize, tableData, queryError, fetching>>
    /\ UNCHANGED <<mapWidget, app, liveWidget>>

NextRoutesTable ==
    \/ TableMount
    \/ Refetch
    \/ QueryResolve
    \/ QueryFail
    \/ PrevClick
    \/ NextClick

SpecRoutesTable == Init /\ [][NextRoutesTable]_vars

\* ============================================ OrdersInventoryLiveWidget
OnCreateRoutesWhileCreating ==
    /\ showConfirm' = TRUE
    /\ UNCHANGED <<creating, message, createdRoutes, maxTrucks, planRuns, msgTimers, queryCache>>
    /\ UNCHANGED <<mapWidget, app, routesTable>>

\* lines 237-239 and 314-320: the Create Routes button, disabled while creating
OnCreateRoutes ==
    /\ ~creating
    /\ showConfirm' = TRUE
    /\ UNCHANGED <<creating, message, createdRoutes, maxTrucks, planRuns, msgTimers, queryCache>>
    /\ UNCHANGED <<mapWidget, app, routesTable>>

\* line 364: the Cancel button of the confirm dialog
CancelConfirm ==
    /\ showConfirm
    /\ showConfirm' = FALSE
    /\ UNCHANGED <<creating, message, createdRoutes, maxTrucks, planRuns, msgTimers, queryCache>>
    /\ UNCHANGED <<mapWidget, app, routesTable>>

\* line 269: the Max trucks input
SetMaxTrucks ==
    \E n \in TruckChoices :
        /\ n # maxTrucks
        /\ maxTrucks' = n
        /\ UNCHANGED <<creating, showConfirm, message, createdRoutes, planRuns, msgTimers, queryCache>>
        /\ UNCHANGED <<mapWidget, app, routesTable>>

\* lines 241-244 and 208-212: the Confirm button closes the dialog and calls
\* createRoutesAsync, which runs to its await of planRun
OnConfirmCreate ==
    /\ showConfirm
    /\ Len(planRuns) < MaxPlanRuns
    /\ showConfirm' = FALSE
    /\ creating' = TRUE
    /\ message' = "Creating routes..."
    /\ planRuns' = Append(planRuns, [stage |-> "planRun", max_trucks |-> maxTrucks])
    /\ UNCHANGED <<createdRoutes, maxTrucks, msgTimers, queryCache>>
    /\ UNCHANGED <<mapWidget, app, routesTable>>

\* lines 212-219: planRun answers with n routes; getActiveRoutes is requested
PlanRunResolve ==
    \E i \in 1..Len(planRuns), n \in 0..MaxCreated :
        /\ planRuns[i].stage = "planRun"
        /\ planRuns' = [planRuns EXCEPT ![i].stage = "activeRoutes"]
        /\ createdRoutes' = n
        /\ message' = "Created routes"
        /\ UNCHANGED <<creating, showConfirm, maxTrucks, msgTimers, queryCache>>
        /\ UNCHANGED <<mapWidget, app, routesTable>>

\* lines 230-234: planRun rejects
PlanRunFail ==
    \E i \in 1..Len(planRuns) :
        /\ planRuns[i].stage = "planRun"
        /\ planRuns' = [planRuns EXCEPT ![i].stage = "failed"]
        /\ message' = "Failed to create routes"
        /\ creating' = FALSE
        /\ UNCHANGED <<showConfirm, createdRoutes, maxTrucks, msgTimers, queryCache>>
        /\ UNCHANGED <<mapWidget, app, routesTable>>

\* lines 218-229 and 232-234: getActiveRoutes answers (the cache gets the list)
\* or rejects (logged); then the created routes go to the cache, the message
\* timer starts and the finally block runs
ActiveRoutesSettled ==
    \E i \in 1..Len(planRuns), ok \in BOOLEAN :
        /\ planRuns[i].stage = "activeRoutes"
        /\ planRuns' = [planRuns EXCEPT ![i].stage = "done"]
        /\ queryCache' = [routes |-> (queryCache.routes \/ ok), created |-> createdRoutes]
        /\ msgTimers' = msgTimers + 1
        /\ creating' = FALSE
        /\ UNCHANGED <<showConfirm, message, createdRoutes, maxTrucks>>
        /\ UNCHANGED <<mapWidget, app, routesTable>>

\* line 229: a timer of 4000 ms fires
MessageTimeout ==
    /\ msgTimers > 0
    /\ msgTimers' = msgTimers - 1
    /\ message' = "none"
    /\ UNCHANGED <<creating, showConfirm, createdRoutes, maxTrucks, planRuns, queryCache>>
    /\ UNCHANGED <<mapWidget, app, routesTable>>

NextLiveWidget ==
    \/ OnCreateRoutes
    \/ CancelConfirm
    \/ SetMaxTrucks
    \/ OnConfirmCreate
    \/ PlanRunResolve
    \/ PlanRunFail
    \/ ActiveRoutesSettled
    \/ MessageTimeout

SpecLiveWidget == Init /\ [][NextLiveWidget]_vars
\* ================================================================ claims
MarkersOf(m, v) == {o \in m.objs : o.vehicle = v}
Oids(m) == {o.oid : o \in m.objs}
Ready == phase = "mounted" /\ curLoaded /\ mapRef # NoSurface
LayersOfRoute(sc, rid) == {id \in sc.layers : sc.sources[id].routeId = rid}
SourcesOfRoute(sc, rid) == {id \in LayerIds : sc.sources[id].routeId = rid}

\* C2: once the widget is detached, a geometry fetch or a position poll that
\* resolves changes nothing in the scene: no marker is created, moved or
\* removed, no source or layer is added or removed.
TeardownSafety == [][phase = "detached" => UNCHANGED <<scene, mk>>]_vars

\* a geometry fetch and a poll, both in flight at detach, have resolved since
ResolvedAfterDetach ==
    /\ phase = "detached"
    /\ \E i \in 1..MaxRoutes : geomReq[i].st = "discarded"
    /\ "latePoll" \in seen

\* C3: at most one position poll is in flight at any time (a tick during a
\* pending poll is skipped).
AtMostOnePollInFlight == Cardinality(poller.inFlight) <= 1

\* C4: whenever the widget is Ready (mounted, surface loaded), the position
\* poller has been started.
ReadyStartsPoller == Ready => poller.active

\* C5: the scene holds at most one marker per vehicleId.
OneMarkerPerVehicle == \A v \in Vehicles : Cardinality(MarkersOf(mk, v)) <= 1

\* two polls have been applied, one of them listing a vehicle twice
RepeatedVehicleApplied ==
    /\ "dupVehicle" \in seen
    /\ \E v, w \in Vehicles : markerPoll[v] = 1 /\ markerPoll[w] = 2
    /\ mk.objs # {}

\* C6: the scene holds at most one layer and one source per routeId, every
\* layer has its source, and a geometry that resolves on the live surface of
\* a running route effect ends up as the layer of its route, replacing the
\* one that was there.
OneLayerPerRoute ==
    /\ [](\A rid \in RouteIds :
            /\ Cardinality(LayersOfRoute(scene, rid)) <= 1
            /\ Cardinality(SourcesOfRoute(scene, rid)) <= 1)
    /\ [](\A id \in LayerIds : id \in scene.layers <=> scene.sources[id] # NoSource)
    /\ [][\A i \in 1..MaxRoutes :
            (/\ geomReq[i].st = "pending"
             /\ geomReq'[i].st \in {"applied", "threw"}
             /\ geomReq'[i].geom # NoBody
             /\ routeRun.map \notin removed)
            => LET id == LayerId(routes[i], i - 1) IN
                /\ id \in scene'.layers
                /\ scene'.sources[id] = [geom |-> geomReq'[i].geom, routeId |-> routes[i].id]
                /\ \A other \in LayerIds \ {id} :
                    /\ scene'.sources[other] = scene.sources[other]
                    /\ (other \in scene'.layers <=> other \in scene.layers)]_vars

\* two answers for the same route were applied, the second over the first
LayerReplaced ==
    \E i, j \in 1..Len(routes) :
        /\ i # j
        /\ routes[i].id = routes[j].id /\ routes[i].id # NoId
        /\ geomReq[i].st = "applied" /\ geomReq[j].st = "applied"
        /\ geomReq[i].geom # geomReq[j].geom
        /\ scene.sources[LayerId(routes[i], i - 1)].geom = geomReq[i].geom

\* C7: a poll leaves alone the marker of every vehicle its result does not
\* list, a vehicle listed for the first time gets exactly one marker, and only
\* the detach removes markers.
MarkerPersistence ==
    [][/\ \A v \in Vehicles :
            (markerPoll'[v] = markerPoll[v] /\ phase' = phase)
                => MarkersOf(mk', v) = MarkersOf(mk, v) /\ mk'.ref[v] = mk.ref[v]
       /\ \A v \in Vehicles :
            (markerPoll[v] = 0 /\ markerPoll'[v] # 0)
                => Cardinality(MarkersOf(mk', v)) = 1
       /\ (~(Oids(mk) \subseteq Oids(mk')))
                => (phase = "mounted" /\ phase' = "detached")]_vars

\* one vehicle's marker was last set by poll 1, the other's by poll 2: one of
\* the two results did not list a vehicle that had a marker
MarkerKeptOverOmission ==
    /\ phase = "mounted"
    /\ \E v, w \in Vehicles :
        /\ markerPoll[v] = 1 /\ markerPoll[w] = 2
        /\ MarkersOf(mk, v) # {} /\ MarkersOf(mk, w) # {}
    /\ poller.inFlight = {}

\* C8: a marker is never set from an older poll after a more recently issued
\* poll was applied to it.
PollOrderRespected ==
    [][\A v \in Vehicles : markerPoll'[v] >= markerPoll[v] \/ phase' = "detached"]_vars

\* C9: after the detach no getLivePositions request is issued.
NoPollAfterDetach == [][phase = "detached" => poller'.seq = poller.seq]_vars

\* detached after the poller had run, with requests left in the budget
DetachedWithTimerCleared ==
    phase = "detached" /\ poller.active /\ poller.seq < MaxPolls /\ "latePoll" \in seen

\* C10: from the detach on, the scene holds no marker, no layer and no source.
SceneEmptyAfterUnmount ==
    phase = "detached" =>
        /\ mk.objs = {}
        /\ scene.layers = {}
        /\ \A id \in LayerIds : scene.sources[id] = NoSource

\* the detach found markers and layers, and requests resolved after it
ClearedThenResolved == phase = "detached" /\ cleared /\ "latePoll" \in seen

\* the coordinator's state as a position on Unmounted, Mounting, Ready,
\* Unmounted (terminal)
CoordRank ==
    CASE phase = "unmounted" -> 0
      [] phase = "mounted" /\ ~Ready -> 1
      [] phase = "mounted" /\ Ready -> 2
      [] OTHER -> 3

\* C11: the coordinator only moves forward along Unmounted, Mounting, Ready,
\* Unmounted; Ready is entered only when the surface reports load; after the
\* detach nothing of the lifecycle changes any more.  (A task that attaches
\* and gets the load report at once passes through Mounting inside the task.)
LifecycleOrder ==
    [][/\ CoordRank' >= CoordRank
       /\ (CoordRank' = 2 /\ CoordRank # 2) => (curLoaded' /\ phase' = "mounted")
       /\ phase = "detached" => UNCHANGED lifecycle]_vars

\* a request goes out in this step
RequestIssued ==
    \/ routesReq # "pending" /\ routesReq' = "pending"
    \/ \E i \in 1..MaxRoutes : geomReq[i].st # "pending" /\ geomReq'[i].st = "pending"
    \/ poller'.seq > poller.seq

\* the answer of a request changes the scene in this step
ResultApplied ==
    \/ geomReq' # geomReq /\ scene' # scene
    \/ poller'.inFlight # poller.inFlight /\ mk' # mk

\* C12: a route-list fetch, a geometry request or a position poll is issued,
\* and an answer is applied to the scene, only in a task in which the
\* coordinator is Ready.
OnlyWhileReady == [][(RequestIssued \/ ResultApplied) => (Ready \/ Ready')]_vars

\* C13: a route with fewer than 2 stops has no getRouteGeometry request, and
\* its layer id is in the scene only if a route with 2 stops shares the id.
ShortRouteSkipped ==
    \A i \in 1..Len(routes) :
        routes[i].nstops < 2 =>
            /\ geomReq[i].st = "skipped"
            /\ (\A j \in 1..Len(routes) :
                    LayerId(routes[j], j - 1) = LayerId(routes[i], i - 1)
                        => routes[j].nstops < 2)
               => /\ LayerId(routes[i], i - 1) \notin scene.layers
                  /\ scene.sources[LayerId(routes[i], i - 1)] = NoSource

\* a list with a 1-stop route and a 2-stop route was fetched, and the layer of
\* the 2-stop route is in the scene
ShortRouteBesideDrawnRoute ==
    \E i, j \in 1..Len(routes) :
        /\ routes[i].nstops = 1 /\ geomReq[i].st = "skipped"
        /\ routes[j].nstops = 2 /\ geomReq[j].st = "applied"
        /\ LayerId(routes[j], j - 1) \in scene.layers
        /\ LayerId(routes[i], i - 1) \notin scene.layers

\* this step is the continuation of a poll applying the answer `payload`
PollAnswer(payload) ==
    /\ ~PollSuppressed(poller, mapRef)
    /\ \E id \in poller.inFlight : poller' = [poller EXCEPT !.inFlight = @ \ {id}]
    /\ mk' = ApplyPositions(mk, payload, mapRef)
    /\ \A v \in Vehicles :
        markerPoll'[v] # markerPoll[v] <=> v \in InPayload(Processed(payload))
    /\ UNCHANGED <<lifecycle, routeVars>>

\* [lon, lat] of the last entry of `payload` for vehicle v among the entries
\* that satisfy Ok
LastLngLat(payload, v, Ok(_)) ==
    LET ks == {k \in 1..Len(payload) : payload[k].vehicle_id = v /\ Ok(payload[k])}
        last == CHOOSE k \in ks : \A j \in ks : j <= k
    IN  <<payload[last].pos.lon, payload[last].pos.lat>>

AnyEntry(p) == TRUE
ValidEntry(p) == ValidLngLat(p.pos)

\* C14: wherever a poll answer can be applied, applying it and then the
\* identical answer once more leaves the markers, their number and their
\* coordinates as after the first time.
PollIdempotent ==
    (~PollSuppressed(poller, mapRef) /\ poller.inFlight # {}) =>
        \A payload \in Payloads :
            LET once == ApplyPositions(mk, payload, mapRef)
            IN  ApplyPositions(once, payload, mapRef) = once

\* an answer of one valid position was applied to the one marker that an
\* earlier answer had put at this position, and changed nothing
SameAnswerAgain ==
    /\ phase = "mounted"
    /\ "reapplied" \in seen /\ "dupVehicle" \notin seen
    /\ Cardinality(mk.objs) = 1
    /\ \E v \in Vehicles : markerPoll[v] # 0 /\ mk.ref[v] # NoMarker

\* C15: after a poll answer is applied, every vehicle it lists has a marker at
\* the polled [lon, lat] that carries a lastSeenAt taken from the poll.
PollResultShown ==
    [][\A payload \in Payloads :
        PollAnswer(payload) =>
            \A k \in 1..Len(payload) :
                \E o \in mk'.objs :
                    /\ o.oid = mk'.ref[payload[k].vehicle_id]
                    /\ o.vehicle = payload[k].vehicle_id
                    /\ o.lngLat = LastLngLat(payload, payload[k].vehicle_id, AnyEntry)
                    /\ "lastSeenAt" \in DOMAIN o]_vars

\* C16: a rejected getActiveRoutes or getRouteGeometry changes only the state
\* of that request: the layers and sources stay as they are, and so does
\* everything else of the widget (the failure ends in the catch of line 116).
RouteFailureKeepsLayers ==
    [][(\/ routesReq = "pending" /\ routesReq' = "failed"
        \/ \E i \in 1..MaxRoutes : geomReq[i].st = "pending" /\ geomReq'[i].st = "failed")
       => /\ scene' = scene
          /\ UNCHANGED <<lifecycle, routeRun, routes, pollVars>>
          /\ \A j \in 1..MaxRoutes : geomReq'[j] = geomReq[j] \/ geomReq'[j].st = "failed"]_vars

\* a geometry request was rejected while the scene held a layer, which is
\* still there
FailedBesideLayer ==
    /\ phase = "mounted"
    /\ "failedOverLayer" \in seen
    /\ \E i, j \in 1..Len(routes) :
        /\ geomReq[i].st = "failed" /\ geomReq[j].st = "applied"
        /\ LayerId(routes[j], j - 1) \in scene.layers

\* a poll leaves the requests in flight in this step without an entry of an
\* answer being applied: it was rejected (or suppressed, or its answer was
\* empty, or threw at its first entry)
PollEndsUnapplied ==
    /\ \E id \in poller.inFlight : poller'.inFlight = poller.inFlight \ {id}
    /\ markerPoll' = markerPoll
    /\ phase' = phase

\* C17: a rejected getLivePositions leaves every marker and markersRef as
\* they are; the poller keeps its timer and the rest of the widget is
\* unchanged (the failure ends in the catch of line 159).
PollFailureKeepsMarkers ==
    [][PollEndsUnapplied =>
        /\ mk' = mk
        /\ poller'.interval = poller.interval /\ poller'.mounted = poller.mounted
        /\ UNCHANGED <<lifecycle, routeVars>>]_vars

\* a poll was rejected while markers were on the surface, and they still are
PollFailedOverMarkers ==
    /\ phase = "mounted"
    /\ "failedOverMarkers" \in seen
    /\ mk.objs # {}

\* C18: while the widget is mounted on its surface, a geometry answer that
\* arrives after another route's request was rejected, or its continuation
\* threw, is still drawn as the layer of its route.
OtherRoutesStillDrawn ==
    [][\A j \in 1..MaxRoutes :
        (/\ geomReq[j].st = "pending"
         /\ geomReq'[j].st \notin {"pending", "failed"}
         /\ geomReq'[j].geom # NoBody
         /\ phase = "mounted"
         /\ routeRun.map \notin removed
         /\ \E i \in 1..MaxRoutes : i # j /\ geomReq[i].st \in {"failed", "threw"})
        => /\ geomReq'[j].st = "applied"
           /\ LayerId(routes[j], j - 1) \in scene'.layers
           /\ scene'.sources[LayerId(routes[j], j - 1)].geom = geomReq'[j].geom]_vars

\* one route's request was rejected or threw, and the other route's answer
\* was drawn after that
DrawnAfterFailure ==
    /\ "appliedAfterFailure" \in seen
    /\ \E i, j \in 1..Len(routes) :
        /\ geomReq[i].st \in {"failed", "threw"} /\ geomReq[j].st = "applied"
        /\ LayerId(routes[j], j - 1) \in scene.layers

\* C19: when a poll answer is applied, every entry with valid coordinates has
\* its vehicle's marker at the coordinates of the vehicle's last valid entry,
\* whatever happens to the other entries of the answer.
VehicleFailureIsolated ==
    [][\A payload \in Payloads :
        PollAnswer(payload) =>
            \A k \in 1..Len(payload) :
                ValidEntry(payload[k]) =>
                    \E o \in mk'.objs :
                        /\ o.oid = mk'.ref[payload[k].vehicle_id]
                        /\ o.lngLat = LastLngLat(payload, payload[k].vehicle_id, ValidEntry)]_vars

\* C20: no layer is drawn from a geometry answer with fewer than 2 coordinates
\* or without a body.
NoMalformedLayer ==
    \A id \in LayerIds : scene.sources[id].geom \notin {ShortGeom, NoBody}

\* C21: once the surface has failed to initialise, the widget does not become
\* Ready on it and creates no other surface by itself, and the failure has
\* been reported to the widget's caller.
SurfaceFailureReported ==
    /\ [](surfaceError # "none" => ~Ready /\ surfaceError = "reported")
    /\ [][(surfaceError # "none" /\ phase' = phase /\ config' = config)
            => (surfaceError' # "none" /\ nsurf' = nsurf /\ curMap' = curMap)]_vars

\* C22: the layer id of a route depends on its routeId alone: not on its
\* position in the list, the same for the same routeId, and different for two
\* routes that differ in routeId (a route without an id is no other route).
LayerIdByRouteId ==
    /\ \A i \in 1..Len(routes), k \in 0..(MaxRoutes - 1) :
        LayerId(routes[i], k) = LayerId(routes[i], i - 1)
    /\ \A i, j \in 1..Len(routes) :
        i # j =>
            IF routes[i].id = routes[j].id /\ routes[i].id # NoId
            THEN LayerId(routes[i], i - 1) = LayerId(routes[j], j - 1)
            ELSE LayerId(routes[i], i - 1) # LayerId(routes[j], j - 1)

\* C23: when the route list arrives, the request of every route with 2 or
\* more stops goes out in that same task; and while the widget is mounted on
\* its surface, an answer is drawn in the task in which it arrives, whatever
\* the state of the other routes' requests.
RequestsRunConcurrently ==
    /\ [][(routesReq = "pending" /\ routesReq' = "done")
            => \A i \in 1..Len(routes') :
                routes'[i].nstops >= 2 => geomReq'[i].st = "pending"]_vars
    /\ [][\A j \in 1..MaxRoutes :
            (/\ geomReq[j].st = "pending"
             /\ geomReq'[j].st \notin {"pending", "failed"}
             /\ geomReq'[j].geom # NoBody
             /\ phase = "mounted"
             /\ routeRun.map \notin removed)
            => /\ geomReq'[j].st = "applied"
               /\ LayerId(routes[j], j - 1) \in scene'.layers
               /\ scene'.sources[LayerId(routes[j], j - 1)].geom = geomReq'[j].geom]_vars

\* the second route of the list is drawn while the request of the first is
\* still in flight
DrawnOutOfListOrder ==
    /\ Len(routes) = 2
    /\ geomReq[1].st = "pending" /\ geomReq[2].st = "applied"
    /\ LayerId(routes[2], 1) \in scene.layers

\* C24: on the surface of a running route effect, upserting a layer and then
\* upserting the same geometry under the same id once more gives the scene of
\* the first upsert: one source and one layer under the id, with the geometry.
UpsertLayerIdempotent ==
    (routeRun.active /\ routeRun.map \notin removed) =>
        \A id \in LayerIds, g \in Geoms \cup {ShortGeom}, rid \in RouteIds \cup {NoId} :
            LET src == [geom |-> g, routeId |-> rid]
                once == UpsertLayer(scene, id, src)
                twice == UpsertLayer(once.scene, id, src)
            IN  /\ once.ok /\ twice.ok
                /\ twice.scene = once.scene
                /\ id \in twice.scene.layers /\ twice.scene.sources[id] = src

\* the same geometry was drawn twice for one routeId
SameGeometryTwice ==
    \E i, j \in 1..Len(routes) :
        /\ i # j
        /\ routes[i].id = routes[j].id /\ routes[i].id # NoId
        /\ geomReq[i].st = "applied" /\ geomReq[j].st = "applied"
        /\ geomReq[i].geom = geomReq[j].geom
        /\ scene.sources[LayerId(routes[i], i - 1)].geom = geomReq[i].geom

\* C25: between two tasks every source has its layer and every layer its
\* source, and no continuation on a surface that is not removed ever threw
\* for another reason than an answer without a body: addSource never met an
\* id that was still there.
LayerReplaceAtomic ==
    /\ \A id \in LayerIds : id \in scene.layers <=> scene.sources[id] # NoSource
    /\ \A i \in 1..MaxRoutes :
        (geomReq[i].st = "threw" /\ geomReq[i].geom # NoBody) => routeRun.map \in removed

\* two routes of different routeIds that share a layer id were both drawn,
\* the later over the earlier
SharedLayerIdReplaced ==
    /\ Len(routes) = 2
    /\ routes[1].id # routes[2].id
    /\ LayerId(routes[1], 0) = LayerId(routes[2], 1)
    /\ geomReq[1].st = "applied" /\ geomReq[2].st = "applied"
    /\ LayerId(routes[1], 0) \in scene.layers

\* C26: a geometry answer that arrives after map.remove() was called on the
\* surface of its route effect is dropped before getLayer is reached.
NoCallOnRemovedSurface ==
    [][\A i \in 1..MaxRoutes :
        (/\ geomReq[i].st = "pending"
         /\ geomReq'[i].st \notin {"pending", "failed"}
         /\ routeRun.map \in removed)
        => (geomReq'[i].st = "discarded" \/ geomReq'[i].geom = NoBody)]_vars

\* C27: when the widget is Ready and no render is outstanding, the route
\* effect has run against the current surface.
RoutesFollowSurface ==
    (Ready /\ loaded = renderedLoaded) => (routeRun.active /\ routeRun.map = curMap)

\* C28: in App, a run of initializeMap that was suspended when the cleanup of
\* its effect ran creates no map afterwards, and at most one map that was not
\* removed exists at any time.
AppSingleMap ==
    /\ Cardinality(maps \ mapsRemoved) <= 1
    /\ \A r \in 1..MaxAppRuns : initRun[r].cleaned => r \notin maps

\* C29: while the table of RoutesTableWidget is shown, currentPage is within
\* 1..totalPages and the page has at least one row.
PageWithinRange ==
    TableShown => (1 <= currentPage /\ currentPage <= totalPages /\ currentRoutes > 0)

\* C30: in OrdersInventoryLiveWidget at most one createRoutesAsync is between
\* its start and its end, creating is true exactly then, and the confirm
\* dialog is never open while creating is true.
SingleCreateInFlight ==
    LET running == {i \in 1..Len(planRuns) : planRuns[i].stage \in {"planRun", "activeRoutes"}}
    IN  /\ Cardinality(running) <= 1
        /\ creating <=> running # {}
        /\ creating => ~showConfirm

\* a second createRoutesAsync is in flight after the first one failed
CreatingAgainAfterFailure ==
    /\ Len(planRuns) = 2
    /\ planRuns[1].stage = "failed"
    /\ planRuns[2].stage = "planRun"
    /\ creating
====
